---------------------------- MODULE Spec2Model ----------------------------
(***************************************************************************)
(* Workflow execution engine of UnifiedCSWFlow: the dispatcher (main), the *)
(* per-site pipeline (runSite), the stage controllers (scriptABC and its   *)
(* subclasses), the job executor (Runner), the checkpoint file stage.txt   *)
(* and the run registry (DAL.SQLiteHandler).                               *)
(*                                                                         *)
(* Environment: the batch scheduler (sbatch / squeue), the local child     *)
(* processes, and the external termination of the whole engine process     *)
(* tree (main, pool workers and their local children).  Jobs submitted to  *)
(* the scheduler live in the scheduler and survive such a termination.     *)
(***************************************************************************)
EXTENDS Integers, Sequences, FiniteSets, TLC

(***************************************************************************)
(* Bounds of the exploration.                                              *)
(***************************************************************************)
\* number of entries of config["input"]["sites"]
NSites == 2
\* largest value of config["compute"]["workers"] explored
MaxWorkers == 2
\* number of engine invocations (main) in one behaviour
MaxBatches == 2
\* largest number of non-empty squeue answers for one job
MaxPolls == 2

\* number of sites of the configuration that overfills the call queue of a
\* pool of one worker (one run executing, two queued, one pending)
NSitesQueue == 4

Sites == 1..(IF NSites > NSitesQueue THEN NSites ELSE NSitesQueue)
\* largest run identifier explored (two decimal digits)
MaxRunId == 11
\* smallest run identifier of a working directory left by earlier invocations
MinDiskId == 8
RunIds == 1..MaxRunId

(***************************************************************************)
(* Workflow definition.                                                    *)
(***************************************************************************)
wf ==
    << "preSGT", "preAWP", "AWPX", "AWPY", "checkX", "checkY",
       "postX", "postY", "rupVar", "runDS", "cleanUp" >>

NStages == Len(wf)

Stages == { wf[n] : n \in 1..NStages }

\* list(wflow)[-1]
lastStage == wf[Len(wf)]

\* position of a token in the workflow, 0 when it is no stage identifier
StageIndex(t) ==
    IF t \in Stages THEN CHOOSE n \in 1..NStages : wf[n] = t ELSE 0

\* the class attribute "type" of each stage controller
type(s) ==
    CASE s = "preSGT"  -> "slurm"
      [] s = "preAWP"  -> "slurm"
      [] s = "AWPX"    -> "slurm"
      [] s = "AWPY"    -> "slurm"
      [] s = "checkX"  -> "slurm"
      [] s = "checkY"  -> "slurm"
      [] s = "postX"   -> "slurm"
      [] s = "postY"   -> "slurm"
      [] s = "rupVar"  -> "sh"
      [] s = "runDS"   -> "slurm"
      [] s = "cleanUp" -> "sh"

\* faulty variant of postToken: AWPX.postprocess writes the literal of AWPY
postTokenCopied(s) ==
    CASE s = "preSGT"  -> "preSGT"
      [] s = "preAWP"  -> "preAWP"
      [] s = "AWPX"    -> "AWPY"
      [] s = "AWPY"    -> "AWPY"
      [] s = "checkX"  -> "checkX"
      [] s = "checkY"  -> "checkY"
      [] s = "postX"   -> "postX"
      [] s = "postY"   -> "postY"
      [] s = "rupVar"  -> "rupVar"
      [] s = "runDS"   -> "runDS"
      [] s = "cleanUp" -> "cleanUp"

\* the literal each controller's postprocess writes to the restart file
postToken(s) ==
    CASE s = "preSGT"  -> "preSGT"
      [] s = "preAWP"  -> "preAWP"
      [] s = "AWPX"    -> "AWPX"
      [] s = "AWPY"    -> "AWPY"
      [] s = "checkX"  -> "checkX"
      [] s = "checkY"  -> "checkY"
      [] s = "postX"   -> "postX"
      [] s = "postY"   -> "postY"
      [] s = "rupVar"  -> "rupVar"
      [] s = "runDS"   -> "runDS"
      [] s = "cleanUp" -> "cleanUp"

(***************************************************************************)
(* Text files: what is written is a sequence of pieces, each a string      *)
(* without line end or the line end itself.                                *)
(***************************************************************************)
NL == "\n"

RECURSIVE readlinesFrom(_, _, _)
readlinesFrom(pieces, n, line) ==
    IF n > Len(pieces) THEN (IF line = "" THEN << >> ELSE << line >>)
    ELSE IF pieces[n] = NL
         THEN << line \o NL >> \o readlinesFrom(pieces, n + 1, "")
         ELSE readlinesFrom(pieces, n + 1, line \o pieces[n])

\* f.readlines(): the lines of the file, each with its line end
readlines(pieces) == readlinesFrom(pieces, 1, "")

\* faulty variant of written: the token is written with a line end
writtenLine(s) == << postToken(s), NL >>

\* what postprocess of stage s writes to the restart file: f.write('<s>')
written(s) == << postToken(s) >>

(***************************************************************************)
(* Values.                                                                 *)
(***************************************************************************)
\* Python's None (no resume token, no file)
None == "None"
\* a restart file that open(..., 'w') has truncated and nothing was written to
Truncated == ""

\* the workspace config["output"]["path"], and the working directories in it
Base == << 0, 0 >>
Dirs == Sites \X RunIds
Places == Dirs \cup { Base }

(***************************************************************************)
(* Decimal strings, as glob returns the directory suffixes.                *)
(***************************************************************************)
RECURSIVE str(_)
str(n) == IF n < 10 THEN << n >> ELSE str(n \div 10) \o << n % 10 >>

\* Python's < on str: lexicographic, a proper prefix is smaller
RECURSIVE strLess(_, _)
strLess(a, b) ==
    IF b = << >> THEN FALSE
    ELSE IF a = << >> THEN TRUE
    ELSE IF Head(a) # Head(b) THEN Head(a) < Head(b)
    ELSE strLess(Tail(a), Tail(b))

VARIABLES
    nsites,       \* len(config["input"]["sites"])
    workers,      \* config["compute"]["workers"]
    restart,      \* config["compute"]["restart"] of the current invocation
    batch,        \* number of invocations of main so far
    mainPc,       \* position of main: "idle", "collect", "raise", "shutdown"
    exitStatus,   \* exit status of the last invocation (-1: none has ended)
    collected,    \* number of results the dispatcher has taken from map
    runID,        \* runIDs[i] of the current invocation
    status,       \* state of each pipeline run of the current invocation
    worker,       \* the pool worker executing each run (0: none)
    cwd,          \* current directory of each pool worker process
    pc,           \* position of each run inside runSite
    k,            \* loop position of each run in the workflow (1-based)
    rstage,       \* resume token of each run
    thread,       \* polling thread of the run's Runner
    event,        \* Runner.resultAvailable
    nq,           \* squeue queries made for the run's current job
    ne,           \* non-empty squeue answers for the run's current job
    sets,         \* calls of resultAvailable.set() for the current job
    jobs,         \* jobs in the scheduler queue
    procs,        \* local child processes alive
    dirExists,    \* working directories on disk
    stageFile,    \* <place>/stage.txt: its first line as readlines() gives it
    rupFile,      \* <place>/post-processing/rupture_file_list_<region> is written
    runsTable,    \* rows of CyberShake_Runs
    calls,        \* the addRunInfo calls made so far: [ Run_ID, Site_ID ]
    firstCall,    \* per run identifier: Site_ID of the first insert executed (0: none)
    txn,          \* per database connection: the addRunInfo call in progress
    CyberShake_Sites, \* CS_Site_ID of the rows of CyberShake_Sites
    log,          \* per run: stage operations of this run, in order
    loaded,       \* per run: the resume token runSite loaded
    failure,      \* per run: the external call that exited non-zero
    done,         \* per directory: stages whose postprocess has returned
    started,      \* per directory: stages built since its last checkpoint write
    lastFail,     \* per directory: stage whose execution error ended its last run
    writes        \* << owning directory, place written to >>

vars ==
    << nsites, workers, restart, batch, mainPc, exitStatus, collected, runID, status,
       worker, cwd,
       pc, k, rstage, thread, event, nq, ne, sets, jobs, procs, dirExists,
       stageFile, rupFile, runsTable, calls, firstCall, txn, CyberShake_Sites, log, loaded, failure, done, started, lastFail,
       writes >>

poolVars ==
    << nsites, workers, restart, batch, mainPc, exitStatus, collected, runID >>
runnerVars == << thread, event, nq, ne, sets >>
diskVars == << dirExists, stageFile, rupFile >>
registryVars == << runsTable, calls, firstCall, txn, CyberShake_Sites >>
histVars == << log, loaded, failure, done, started, lastFail, writes >>

\* a connection with no addRunInfo call in progress
NoCall == [ pc |-> "idle", Run_ID |-> 0, Site_ID |-> 0, inserted |-> FALSE ]

\* cRunPath of run i
cRunPath(i) == << i, runID[i] >>

\* the scheduler job / child process of run i at its current stage
JobOf(i) == [ dir |-> cRunPath(i), stage |-> wf[k[i]], batch |-> batch ]

\* the pipeline runs of the configured sites
Runs == 1..nsites

\* invocations explored: restarts for a single site, one invocation otherwise
BatchLimit == IF nsites = 1 THEN MaxBatches ELSE 1

\* no engine process is running
EngineStopped ==
    /\ restart = FALSE
    /\ mainPc = "idle"
    /\ exitStatus = -1
    /\ collected = 0
    /\ runID = [ i \in Sites |-> i ]
    /\ status = [ i \in Sites |-> "NotStarted" ]
    /\ worker = [ i \in Sites |-> 0 ]
    /\ cwd = [ w \in 1..MaxWorkers |-> Base ]
    /\ pc = [ i \in Sites |-> "begin" ]
    /\ k = [ i \in Sites |-> 1 ]
    /\ rstage = [ i \in Sites |-> None ]
    /\ thread = [ i \in Sites |-> "none" ]
    /\ event = [ i \in Sites |-> FALSE ]
    /\ nq = [ i \in Sites |-> 0 ]
    /\ ne = [ i \in Sites |-> 0 ]
    /\ sets = [ i \in Sites |-> 0 ]
    /\ jobs = {}
    /\ procs = {}
    /\ rupFile = [ p \in Places |-> FALSE ]
    /\ txn = [ c \in 1..MaxWorkers |-> NoCall ]
    /\ log = [ i \in Sites |-> << >> ]
    /\ loaded = [ i \in Sites |-> None ]
    /\ failure = [ i \in Sites |-> "none" ]
    /\ done = [ d \in Dirs |-> {} ]
    /\ started = [ d \in Dirs |-> {} ]
    /\ lastFail = [ d \in Dirs |-> None ]
    /\ writes = {}

\* no engine process is running and no directory holds a restart file
FreshEngine ==
    /\ EngineStopped
    /\ stageFile = [ p \in Places |-> None ]

\* the workspace and the registry after earlier invocations for the first
\* site that registered the runs ids and were terminated before their first
\* restart file write
Workspace(ids) ==
    /\ batch = IF ids = {} THEN 0 ELSE 1
    /\ dirExists = [ d \in Dirs |-> d[1] = 1 /\ d[2] \in ids ]
    /\ runsTable = { [ Run_ID |-> n, Site_ID |-> 1 ] : n \in ids }
    /\ calls = { [ Run_ID |-> n, Site_ID |-> 1 ] : n \in ids }
    /\ firstCall = [ id \in RunIds |-> IF id \in ids THEN 1 ELSE 0 ]

\* every configured site has a row in CyberShake_Sites
AllRegistered == CyberShake_Sites = Sites

\* the state before the first invocation: empty workspace, empty registry
\* of runs
Fresh == FreshEngine /\ Workspace({}) /\ AllRegistered

\* the configurations of Init, and one site started in a workspace that holds
\* any of the directories with run identifiers MinDiskId .. MaxRunId - 1
InitIds ==
    /\ workers = 1
    /\ \/ nsites \in { 1, NSites } /\ Fresh
       \/ /\ nsites = 1
          /\ FreshEngine
          /\ AllRegistered
          /\ \E ids \in SUBSET (MinDiskId..(MaxRunId - 1)) :
                 ids # {} /\ Workspace(ids)

\* tokens written by the controllers insertDB, checkDB and curveCalc, which
\* the earlier workflow definition listed and the present one does not
retiredTokens == { "insertDB", "checkDB", "curveCalc" }

\* the configurations of Init, and one site started in a workspace whose
\* run directory holds a restart file written under the earlier definition
InitToken ==
    /\ workers = 1
    /\ \/ nsites \in { 1, NSites } /\ Fresh
       \/ /\ nsites = 1
          /\ EngineStopped
          /\ AllRegistered
          /\ Workspace({ 1 })
          /\ \E t \in retiredTokens :
                 stageFile = [ p \in Places |->
                                 IF p = << 1, 1 >> THEN t ELSE None ]

\* the configurations of Init, and NSites sites of which any may have no row
\* in CyberShake_Sites
InitLookup ==
    /\ workers = 1
    /\ \/ nsites \in { 1, NSites } /\ Fresh
       \/ /\ nsites = NSites
          /\ FreshEngine
          /\ Workspace({})
          /\ \E U \in SUBSET (1..NSites) :
                 U # {} /\ CyberShake_Sites = Sites \ U

\* the workspace and the registry after an invocation for NSites sites that
\* started at run identifier r on a registry whose largest Run_ID was r - 1,
\* and in which every run failed at the build of its first stage
BatchWorkspace(r) ==
    /\ batch = 0
    /\ dirExists = [ d \in Dirs |-> d[1] \in 1..NSites /\ d[2] = r + d[1] - 1 ]
    /\ runsTable = { [ Run_ID |-> r + i - 1, Site_ID |-> i ] : i \in 1..NSites }
                       \cup (IF r > 1 THEN { [ Run_ID |-> r - 1, Site_ID |-> 1 ] }
                             ELSE {})
    /\ calls = runsTable
    /\ firstCall = [ n \in RunIds |->
                       IF n \in r..(r + NSites - 1) THEN n - r + 1
                       ELSE IF n = r - 1 THEN 1 ELSE 0 ]

\* the configurations of Init, and NSites sites started again in the
\* workspace of an earlier invocation for the same sites
InitBatch ==
    /\ workers = 1
    /\ \/ nsites \in { 1, NSites } /\ Fresh
       \/ /\ nsites = NSites
          /\ FreshEngine
          /\ AllRegistered
          /\ \E r \in { 1, MaxRunId - NSites } : BatchWorkspace(r)

\* restart files explored in a workspace that is older than the registry
staleTokens == { "preAWP", "cleanUp" }

\* the configurations of Init, and one site started on an empty registry (a
\* new database file) in a workspace where the directory of run 1 is left
\* from an earlier invocation, with a restart file
InitStale ==
    /\ workers = 1
    /\ \/ nsites \in { 1, NSites } /\ Fresh
       \/ /\ nsites = 1
          /\ EngineStopped
          /\ AllRegistered
          /\ batch = 0
          /\ dirExists = [ d \in Dirs |-> d = << 1, 1 >> ]
          /\ runsTable = {}
          /\ calls = {}
          /\ firstCall = [ n \in RunIds |-> 0 ]
          /\ \E t \in staleTokens :
                 stageFile = [ p \in Places |->
                                 IF p = << 1, 1 >> THEN t ELSE None ]

\* one site and restarts, or NSites sites, on a pool of one worker
Init ==
    /\ nsites \in { 1, NSites }
    /\ workers = 1
    /\ Fresh

\* the same on pools of up to MaxWorkers workers
InitPool ==
    /\ nsites \in { 1, NSites }
    /\ workers \in 1..MaxWorkers
    /\ Fresh

\* one site and restarts, or NSitesQueue sites, on a pool of one worker
InitQueue ==
    /\ nsites \in { 1, NSitesQueue }
    /\ workers = 1
    /\ Fresh

(***************************************************************************)
(* Helpers.                                                                *)
(***************************************************************************)
Max(S) == CHOOSE x \in S : \A y \in S : y <= x
Min(S) == CHOOSE x \in S : \A y \in S : x <= y

\* int() of a decimal string
RECURSIVE int(_)
int(s) == IF s = << >> THEN 0 ELSE 10 * int(SubSeq(s, 1, Len(s) - 1)) + s[Len(s)]

\* Python's min() over a non-empty set of str
minStr(S) == CHOOSE a \in S : \A b \in S : a = b \/ strLess(a, b)

Terminal == { "Completed", "Failed", "Cancelled", "Killed" }

\* worker process w is executing no run
Idle(w) == \A i \in Runs : ~(status[i] = "InProgress" /\ worker[i] = w)

\* the directory the worker of run i is in
Cwd(i) == cwd[worker[i]]

(***************************************************************************)
(* Run registry (DAL.SQLiteHandler).                                       *)
(***************************************************************************)
\* faulty variant of getValidRunId: the maximum itself
getValidRunIdMax ==
    IF runsTable = {} THEN 1 ELSE Max({ row.Run_ID : row \in runsTable })

\* select max(Run_ID) from CyberShake_Runs; 1 on an empty table
getValidRunId ==
    IF runsTable = {} THEN 1 ELSE 1 + Max({ row.Run_ID : row \in runsTable })

\* committed rows of CyberShake_Runs with run identifier id
RowsWith(id) == { row \in runsTable : row.Run_ID = id }

\* faulty variant of addRunInfo: "insert or replace"
addRunInfoReplace(table, id, siteID) ==
    { row \in table : row.Run_ID # id }
        \cup { [ Run_ID |-> id, Site_ID |-> siteID ] }

\* insert; sqlite3.IntegrityError on a duplicate Run_ID is swallowed
addRunInfo(table, id, siteID) ==
    IF \E row \in table : row.Run_ID = id
    THEN table
    ELSE table \cup { [ Run_ID |-> id, Site_ID |-> siteID ] }

\* faulty variant of getSiteID: every site name resolves
getSiteIDAny(site) == site

\* CS_Site_ID of a site; 0 stands for the None of an unknown site ("not siteId")
getSiteID(site) == IF site \in CyberShake_Sites THEN site ELSE 0

(***************************************************************************)
(* Dispatcher (main).                                                      *)
(***************************************************************************)
\* [i.split("_")[-1] for i in glob.glob(path + "/*[0-9]")]
tmpids == { str(d[2]) : d \in { e \in Dirs : dirExists[e] } }

\* the starting run id main computes
startRunID(r) ==
    IF r /\ tmpids # {} THEN int(minStr(tmpids)) ELSE getValidRunId

\* one invocation of main up to the creation of the pool and the map call;
\* the first invocation finds an empty workspace, where the restart flag
\* changes nothing, and is explored with the flag off
Dispatch(r) ==
    /\ mainPc = "idle"
    /\ batch < BatchLimit
    /\ r => (batch > 0 \/ tmpids # {})
    /\ startRunID(r) + nsites - 1 <= MaxRunId
    /\ restart' = r
    /\ batch' = batch + 1
    /\ mainPc' = "collect"
    /\ exitStatus' = -1
    /\ collected' = 0
    /\ runID' = [ i \in Sites |-> startRunID(r) + (i - 1) ]
    /\ status' = [ i \in Sites |-> "NotStarted" ]
    /\ worker' = [ i \in Sites |-> 0 ]
    /\ cwd' = [ w \in 1..MaxWorkers |-> Base ]
    /\ pc' = [ i \in Sites |-> "begin" ]
    /\ k' = [ i \in Sites |-> 1 ]
    /\ rstage' = [ i \in Sites |-> None ]
    /\ thread' = [ i \in Sites |-> "none" ]
    /\ event' = [ i \in Sites |-> FALSE ]
    /\ nq' = [ i \in Sites |-> 0 ]
    /\ ne' = [ i \in Sites |-> 0 ]
    /\ sets' = [ i \in Sites |-> 0 ]
    /\ log' = [ i \in Sites |-> << >> ]
    /\ loaded' = [ i \in Sites |-> None ]
    /\ failure' = [ i \in Sites |-> "none" ]
    /\ UNCHANGED << nsites, workers, jobs, procs, diskVars, registryVars, done,
                    started, lastFail, writes >>

\* the pool's manager thread moves the next work item to the call queue
\* (capacity max_workers + 1); from then on its future cannot be cancelled
Enqueue ==
    /\ mainPc # "idle"
    /\ \E i \in Runs : status[i] = "NotStarted"
    /\ Cardinality({ i \in Runs : status[i] = "Queued" }) < workers + 1
    /\ LET i == Min({ j \in Runs : status[j] = "NotStarted" })
       IN  status' = [ status EXCEPT ![i] = "Queued" ]
    /\ UNCHANGED << poolVars, worker, cwd, pc, k, rstage, runnerVars, jobs,
                    procs, diskVars, registryVars, histVars >>

\* faulty variant of StartRun: a worker process takes a call item while it
\* is executing one
StartRunBusy(w) ==
    /\ mainPc # "idle"
    /\ w <= workers
    /\ \E i \in Runs : status[i] = "Queued"
    /\ LET i == Min({ j \in Runs : status[j] = "Queued" })
       IN  /\ status' = [ status EXCEPT ![i] = "InProgress" ]
           /\ worker' = [ worker EXCEPT ![i] = w ]
    /\ UNCHANGED << poolVars, cwd, pc, k, rstage, runnerVars, jobs, procs,
                    diskVars, registryVars, histVars >>

\* an idle worker process takes the oldest call item and calls runSite
StartRun(w) ==
    /\ mainPc # "idle"
    /\ w <= workers
    /\ Idle(w)
    /\ \E i \in Runs : status[i] = "Queued"
    /\ LET i == Min({ j \in Runs : status[j] = "Queued" })
       IN  /\ status' = [ status EXCEPT ![i] = "InProgress" ]
           /\ worker' = [ worker EXCEPT ![i] = w ]
    /\ UNCHANGED << poolVars, cwd, pc, k, rstage, runnerVars, jobs, procs,
                    diskVars, registryVars, histVars >>

\* list(executor.map(...)): the next result in submission order; the result
\* of a failed run is its exception, raised in main
Collect ==
    /\ mainPc = "collect"
    /\ IF collected = nsites
       THEN /\ mainPc' = "idle"
            /\ exitStatus' = 0
            /\ UNCHANGED collected
       ELSE /\ status[collected + 1] \in { "Completed", "Failed" }
            /\ IF status[collected + 1] = "Completed"
               THEN /\ collected' = collected + 1
                    /\ UNCHANGED mainPc
               ELSE /\ mainPc' = "raise"
                    /\ UNCHANGED collected
            /\ UNCHANGED exitStatus
    /\ UNCHANGED << nsites, workers, restart, batch, runID, status, worker,
                    cwd, pc, k, rstage, runnerVars, jobs, procs, diskVars,
                    registryVars, histVars >>

\* the result iterator's finally clause: future.cancel() on the futures not
\* yet yielded, last first; only a future not yet in the call queue cancels
CancelFuture ==
    /\ mainPc = "raise"
    /\ \E i \in Runs : status[i] = "NotStarted"
    /\ LET i == Max({ j \in Runs : status[j] = "NotStarted" })
       IN  status' = [ status EXCEPT ![i] = "Cancelled" ]
    /\ UNCHANGED << poolVars, worker, cwd, pc, k, rstage, runnerVars, jobs,
                    procs, diskVars, registryVars, histVars >>

\* the exception leaves the with block: executor.shutdown(wait=True)
Shutdown ==
    /\ mainPc = "raise"
    /\ \A i \in Runs : status[i] # "NotStarted"
    /\ mainPc' = "shutdown"
    /\ UNCHANGED << exitStatus, nsites, workers, restart, batch, collected, runID, status,
                    worker, cwd, pc, k, rstage, runnerVars, jobs, procs,
                    diskVars, registryVars, histVars >>

\* shutdown returns once every started run has ended; main prints the
\* traceback and returns
Exit ==
    /\ mainPc = "shutdown"
    /\ \A i \in Runs : status[i] \in Terminal
    /\ mainPc' = "idle"
    /\ exitStatus' = 0
    /\ UNCHANGED << nsites, workers, restart, batch, collected, runID, status,
                    worker, cwd, pc, k, rstage, runnerVars, jobs, procs,
                    diskVars, registryVars, histVars >>

(***************************************************************************)
(* Pipeline run (runSite).                                                 *)
(***************************************************************************)
\* "id = (runID%2+1)*2-1": the position of the run's progress bar
slotId(r) == ((r % 2) + 1) * 2 - 1

\* the position handed to the stage controllers: "(config, id+1, runID, ...)"
stageId(r) == slotId(r) + 1

At(i, where) == status[i] = "InProgress" /\ pc[i] = where

\* the stage controller the loop of run i is at
stageOf(i) == wf[k[i]]

\* faulty variant of loadRstage: the restart file is never read
loadRstageNever(i) == None

\* faulty variant of loadRstage: the restart file is read whenever the
\* directory exists, whatever the restart flag
loadRstageAlways(i) ==
    IF ~dirExists[cRunPath(i)] THEN None
    ELSE stageFile[cRunPath(i)]

\* f.readlines()[0] of the restart file, None when it is not read
loadRstage(i) ==
    IF ~(restart /\ dirExists[cRunPath(i)]) THEN None
    ELSE stageFile[cRunPath(i)]

\* faulty variant of alreadyDone: the token is compared with the stage before
\* the last one
alreadyDoneOffByOne(t) == t # None /\ t # Truncated /\ t = wf[Len(wf) - 1]

\* "if rstage and rstage == list(wflow)[-1]"
alreadyDone(t) == t # None /\ t # Truncated /\ t = lastStage

\* faulty variant of chdir: the directory is entered only by the first run
\* of a worker process
chdirOnce(i) ==
    IF cwd[worker[i]] = Base THEN [ cwd EXCEPT ![worker[i]] = cRunPath(i) ]
    ELSE cwd

\* os.chdir(cRunPath) in the worker process of run i
chdir(i) == [ cwd EXCEPT ![worker[i]] = cRunPath(i) ]

\* runSite up to os.chdir(cRunPath): the working directory, the resume token,
\* the "Already done" return
Begin(i) ==
    /\ At(i, "begin")
    /\ dirExists' = [ dirExists EXCEPT ![cRunPath(i)] = TRUE ]
    /\ IF loadRstage(i) = Truncated
       THEN \* readlines() is empty: IndexError leaves runSite
            /\ status' = [ status EXCEPT ![i] = "Failed" ]
            /\ UNCHANGED << rstage, loaded, cwd, pc >>
       ELSE /\ rstage' = [ rstage EXCEPT ![i] = loadRstage(i) ]
            /\ loaded' = [ loaded EXCEPT ![i] = loadRstage(i) ]
            /\ IF alreadyDone(loadRstage(i))
               THEN /\ status' = [ status EXCEPT ![i] = "Completed" ]
                    /\ UNCHANGED << cwd, pc >>
               ELSE /\ cwd' = chdir(i)
                    /\ pc' = [ pc EXCEPT ![i] = "register" ]
                    /\ UNCHANGED status
    /\ lastFail' = [ lastFail EXCEPT ![cRunPath(i)] =
                       IF status'[i] = "InProgress" THEN @ ELSE None ]
    /\ UNCHANGED << poolVars, worker, k, runnerVars, jobs, procs, stageFile,
                    rupFile, registryVars, log, failure, done, started, writes >>

\* runSite from getSiteID to generateCyberShakeCFG: the registry row, the
\* rupture files and cybershake.cfg, all under the absolute path cRunPath
Register(i) ==
    /\ At(i, "register")
    /\ IF getSiteID(i) = 0
       THEN /\ status' = [ status EXCEPT ![i] = "Completed" ]
            /\ UNCHANGED << registryVars, writes, pc >>
       ELSE /\ runsTable' = addRunInfo(runsTable, runID[i], getSiteID(i))
            /\ calls' = calls \cup { [ Run_ID |-> runID[i], Site_ID |-> getSiteID(i) ] }
            /\ firstCall' = [ firstCall EXCEPT ![runID[i]] =
                                IF @ = 0 THEN getSiteID(i) ELSE @ ]
            /\ UNCHANGED << txn, CyberShake_Sites >>
            /\ writes' = writes \cup { << cRunPath(i), cRunPath(i) >> }
            /\ pc' = [ pc EXCEPT ![i] = "loop" ]
            /\ UNCHANGED status
    /\ UNCHANGED << poolVars, worker, cwd, k, rstage, runnerVars, jobs, procs,
                    diskVars, log, loaded, failure, done, started, lastFail >>

\* faulty variant of Skip: the iteration that matches the token clears it
\* but does not "continue", so the matching stage is processed again
SkipRerun(i) ==
    /\ At(i, "loop")
    /\ k[i] <= NStages
    /\ rstage[i] # None
    /\ rstage' = [ rstage EXCEPT ![i] = IF stageOf(i) = @ THEN None ELSE @ ]
    /\ k' = [ k EXCEPT ![i] = IF stageOf(i) = rstage[i] THEN @ ELSE @ + 1 ]
    /\ UNCHANGED << poolVars, status, worker, cwd, pc, runnerVars, jobs, procs,
                    diskVars, registryVars, histVars >>

\* one iteration of the stage loop while the resume token is set
Skip(i) ==
    /\ At(i, "loop")
    /\ k[i] <= NStages
    /\ rstage[i] # None
    /\ rstage' = [ rstage EXCEPT ![i] = IF stageOf(i) = @ THEN None ELSE @ ]
    /\ k' = [ k EXCEPT ![i] = @ + 1 ]
    /\ UNCHANGED << poolVars, status, worker, cwd, pc, runnerVars, jobs, procs,
                    diskVars, registryVars, histVars >>

\* faulty variant of Finish: a resume token that matched no stage is
\* reported as an error when the loop is exhausted
FinishStrict(i) ==
    /\ At(i, "loop")
    /\ k[i] > NStages
    /\ status' = [ status EXCEPT ![i] =
                      IF rstage[i] = None THEN "Completed" ELSE "Failed" ]
    /\ lastFail' = [ lastFail EXCEPT ![cRunPath(i)] = None ]
    /\ UNCHANGED << poolVars, worker, cwd, pc, k, rstage, runnerVars, jobs,
                    procs, diskVars, registryVars, log, loaded, failure, done,
                    started, writes >>

\* the loop is exhausted: runSite returns
Finish(i) ==
    /\ At(i, "loop")
    /\ k[i] > NStages
    /\ status' = [ status EXCEPT ![i] = "Completed" ]
    /\ lastFail' = [ lastFail EXCEPT ![cRunPath(i)] = None ]
    /\ UNCHANGED << poolVars, worker, cwd, pc, k, rstage, runnerVars, jobs,
                    procs, diskVars, registryVars, log, loaded, failure, done,
                    started, writes >>

(***************************************************************************)
(* Stage controller (scriptABC) and job executor (Runner).                 *)
(***************************************************************************)
\* where open(<relative name>, 'w') of run i lands
saveTarget(i) == Cwd(i)

\* configurations in which a failure of the file system during build is
\* explored
BuildMayFail == nsites <= NSites

\* the controller is created and stage.build() saves <StageName>.<type>; an
\* exception of open or chmod in _saveScript leaves build and runSite
build(i, ok) ==
    /\ At(i, "loop")
    /\ k[i] <= NStages
    /\ rstage[i] = None
    /\ ok \/ BuildMayFail
    /\ writes' = writes \cup { << cRunPath(i), saveTarget(i) >> }
    /\ log' = [ log EXCEPT ![i] = Append(@, << "build", stageOf(i) >>) ]
    /\ started' = [ started EXCEPT ![cRunPath(i)] = @ \cup { stageOf(i) } ]
    /\ IF ok
       THEN /\ pc' = [ pc EXCEPT ![i] = "run" ]
            /\ UNCHANGED << status, failure, lastFail >>
       ELSE /\ status' = [ status EXCEPT ![i] = "Failed" ]
            /\ failure' = [ failure EXCEPT ![i] = "build" ]
            /\ lastFail' = [ lastFail EXCEPT ![cRunPath(i)] = stageOf(i) ]
            /\ UNCHANGED pc
    /\ UNCHANGED << poolVars, worker, cwd, k, rstage, runnerVars, jobs, procs,
                    diskVars, registryVars, loaded, done >>

\* faulty variant of submitFailed: the return code of sbatch is not looked
\* at and the polling thread is started
submitUnchecked(i) ==
    /\ thread' = [ thread EXCEPT ![i] = "polling" ]
    /\ pc' = [ pc EXCEPT ![i] = "wait" ]
    /\ UNCHANGED << status, lastFail, event, nq, ne, sets, jobs >>

\* faulty variant of submitFailed: the run stays at stage.run() and submits
\* the script again
submitRetried(i) ==
    /\ lastFail' = [ lastFail EXCEPT ![cRunPath(i)] = stageOf(i) ]
    /\ UNCHANGED << status, pc, thread, event, nq, ne, sets, jobs >>

\* "if process.returncode != 0: raise" after sbatch: the exception leaves
\* enqueueSlurm, run and runSite
submitFailed(i) ==
    /\ status' = [ status EXCEPT ![i] = "Failed" ]
    /\ lastFail' = [ lastFail EXCEPT ![cRunPath(i)] = stageOf(i) ]
    /\ UNCHANGED << pc, thread, event, nq, ne, sets, jobs >>

\* failures of external commands explored: at every stage in the
\* configurations of at most NSites sites, at the first stage in larger ones
StageMayFail(i) == nsites <= NSites \/ k[i] = 1

\* stage.run() of a "slurm" stage: sbatch, and on success the polling thread
enqueueSlurm(i, ok) ==
    /\ At(i, "run")
    /\ type(stageOf(i)) = "slurm"
    /\ ok \/ StageMayFail(i)
    /\ log' = [ log EXCEPT ![i] = Append(@, << "run", stageOf(i) >>) ]
    /\ failure' = [ failure EXCEPT ![i] = IF ok THEN @ ELSE "sbatch" ]
    /\ IF ok
       THEN /\ jobs' = jobs \cup { JobOf(i) }
            /\ thread' = [ thread EXCEPT ![i] = "polling" ]
            /\ event' = [ event EXCEPT ![i] = FALSE ]
            /\ nq' = [ nq EXCEPT ![i] = 0 ]
            /\ ne' = [ ne EXCEPT ![i] = 0 ]
            /\ sets' = [ sets EXCEPT ![i] = 0 ]
            /\ pc' = [ pc EXCEPT ![i] = "wait" ]
            /\ UNCHANGED << status, lastFail >>
       ELSE submitFailed(i)
    /\ UNCHANGED << poolVars, worker, cwd, k, rstage, procs, diskVars,
                    registryVars, loaded, done, started, writes >>

\* faulty variant of signal: the polling thread leaves its loop and ends
\* without resultAvailable.set()
signalLost(i) ==
    /\ thread' = [ thread EXCEPT ![i] = "done" ]
    /\ UNCHANGED << event, sets, ne >>

\* the polling thread leaves its loop and signals
signal(i) ==
    /\ thread' = [ thread EXCEPT ![i] = "done" ]
    /\ event' = [ event EXCEPT ![i] = TRUE ]
    /\ sets' = [ sets EXCEPT ![i] = @ + 1 ]
    /\ UNCHANGED ne

\* faulty variant of keepPolling: the thread signals after any answer
keepPollingSignals(i) ==
    /\ ne[i] < MaxPolls
    /\ ne' = [ ne EXCEPT ![i] = @ + 1 ]
    /\ event' = [ event EXCEPT ![i] = TRUE ]
    /\ sets' = [ sets EXCEPT ![i] = @ + 1 ]
    /\ UNCHANGED thread

\* the polling thread reads a non-empty status line and goes on
keepPolling(i) ==
    /\ ne[i] < MaxPolls
    /\ ne' = [ ne EXCEPT ![i] = @ + 1 ]
    /\ UNCHANGED << thread, event, sets >>

\* one iteration of Runner._waitForSlurmJob: squeue, then break and set()
\* on an empty answer; a non-zero return code raises inside the thread,
\* which ends it
waitForSlurmJob(i, ok) ==
    /\ status[i] = "InProgress"
    /\ thread[i] = "polling"
    /\ ok \/ StageMayFail(i)
    /\ failure' = [ failure EXCEPT ![i] = IF ok THEN @ ELSE "squeue" ]
    /\ IF ~ok
       THEN /\ thread' = [ thread EXCEPT ![i] = "dead" ]
            /\ nq' = [ nq EXCEPT ![i] = 0 ]
            /\ ne' = [ ne EXCEPT ![i] = 0 ]
            /\ UNCHANGED << event, sets >>
       ELSE /\ nq' = [ nq EXCEPT ![i] = @ + 1 ]
            /\ IF JobOf(i) \in jobs THEN keepPolling(i) ELSE signal(i)
    /\ UNCHANGED << poolVars, status, worker, cwd, pc, k, rstage, jobs, procs,
                    diskVars, registryVars, log, loaded, done, started, lastFail,
                    writes >>

\* resultAvailable.wait(timeout=1) times out: the progress bar is updated
waitTimeout(i) ==
    /\ At(i, "wait")
    /\ ~event[i]
    /\ UNCHANGED vars

\* faulty variant of waitReturn: enqueueSlurm returns without waiting for the
\* event
waitReturnEarly(i) ==
    /\ At(i, "wait")
    /\ pc' = [ pc EXCEPT ![i] = "post" ]
    /\ thread' = [ thread EXCEPT ![i] = "none" ]
    /\ event' = [ event EXCEPT ![i] = FALSE ]
    /\ nq' = [ nq EXCEPT ![i] = 0 ]
    /\ ne' = [ ne EXCEPT ![i] = 0 ]
    /\ sets' = [ sets EXCEPT ![i] = 0 ]
    /\ UNCHANGED << poolVars, status, worker, cwd, k, rstage, jobs, procs,
                    diskVars, registryVars, histVars >>

\* resultAvailable.wait returns True: enqueueSlurm returns and the Runner,
\* a temporary of scriptABC.run, is dropped
waitReturn(i) ==
    /\ At(i, "wait")
    /\ event[i]
    /\ pc' = [ pc EXCEPT ![i] = "post" ]
    /\ thread' = [ thread EXCEPT ![i] = "none" ]
    /\ event' = [ event EXCEPT ![i] = FALSE ]
    /\ nq' = [ nq EXCEPT ![i] = 0 ]
    /\ ne' = [ ne EXCEPT ![i] = 0 ]
    /\ sets' = [ sets EXCEPT ![i] = 0 ]
    /\ UNCHANGED << poolVars, status, worker, cwd, k, rstage, jobs, procs,
                    diskVars, registryVars, histVars >>

\* stage.run() of a "sh" stage: subprocess.run starts the child
runBashScript(i) ==
    /\ At(i, "run")
    /\ type(stageOf(i)) = "sh"
    /\ log' = [ log EXCEPT ![i] = Append(@, << "run", stageOf(i) >>) ]
    /\ procs' = procs \cup { JobOf(i) }
    /\ pc' = [ pc EXCEPT ![i] = "exec" ]
    /\ UNCHANGED << poolVars, status, worker, cwd, k, rstage, runnerVars, jobs,
                    diskVars, registryVars, loaded, failure, done, started,
                    lastFail, writes >>

\* faulty variant of bashExit: the return code of the child is not looked at
bashExitUnchecked(i, ok) ==
    /\ At(i, "exec")
    /\ procs' = procs \ { JobOf(i) }
    /\ pc' = [ pc EXCEPT ![i] = "post" ]
    /\ failure' = [ failure EXCEPT ![i] = IF ok THEN @ ELSE "bash" ]
    /\ UNCHANGED << status, lastFail >>
    /\ UNCHANGED << poolVars, worker, cwd, k, rstage, runnerVars, jobs,
                    diskVars, registryVars, log, loaded, done, started, writes >>

\* the child exits: return code 0, or an exception leaves runSite
bashExit(i, ok) ==
    /\ At(i, "exec")
    /\ ok \/ StageMayFail(i)
    /\ procs' = procs \ { JobOf(i) }
    /\ IF ok
       THEN /\ pc' = [ pc EXCEPT ![i] = "post" ]
            /\ UNCHANGED << status, failure, lastFail >>
       ELSE /\ status' = [ status EXCEPT ![i] = "Failed" ]
            /\ failure' = [ failure EXCEPT ![i] = "bash" ]
            /\ lastFail' = [ lastFail EXCEPT ![cRunPath(i)] = stageOf(i) ]
            /\ UNCHANGED pc
    /\ UNCHANGED << poolVars, worker, cwd, k, rstage, runnerVars, jobs,
                    diskVars, registryVars, log, loaded, done, started, writes >>

\* stages whose postprocess does bookkeeping before it writes the token
bookkeeping(s) == s = "rupVar"

\* configurations in which a failure of the bookkeeping is explored
BookkeepingMayFail == BuildMayFail

\* rupVar.postprocess up to the restart file: DAL.generateRuptureFile queries
\* the registry and writes the rupture file list, a relative name; an
\* exception of the query or of open leaves postprocess and runSite
generateRuptureFile(i, ok) ==
    /\ At(i, "post")
    /\ bookkeeping(stageOf(i))
    /\ ok \/ BookkeepingMayFail
    /\ IF ok
       THEN /\ rupFile' = [ rupFile EXCEPT ![saveTarget(i)] = TRUE ]
            /\ writes' = writes \cup { << cRunPath(i), saveTarget(i) >> }
            /\ pc' = [ pc EXCEPT ![i] = "token" ]
            /\ UNCHANGED << status, failure, lastFail >>
       ELSE /\ status' = [ status EXCEPT ![i] = "Failed" ]
            /\ failure' = [ failure EXCEPT ![i] = "bookkeeping" ]
            /\ lastFail' = [ lastFail EXCEPT ![cRunPath(i)] = stageOf(i) ]
            /\ UNCHANGED << rupFile, writes, pc >>
    /\ UNCHANGED << poolVars, worker, cwd, k, rstage, runnerVars, jobs, procs,
                    dirExists, stageFile, registryVars, log, loaded, done,
                    started >>

\* run i is at the write of the restart file in postprocess
AtToken(i) ==
    \/ At(i, "post") /\ ~bookkeeping(stageOf(i))
    \/ At(i, "token")

\* faulty variant of postprocess: the token is written before the bookkeeping
postprocessTokenFirst(i) ==
    /\ At(i, "post")
    /\ stageFile' = [ stageFile EXCEPT ![saveTarget(i)] =
                           readlines(written(stageOf(i)))[1] ]
    /\ writes' = writes \cup { << cRunPath(i), saveTarget(i) >> }
    /\ log' = [ log EXCEPT ![i] = Append(@, << "post", stageOf(i) >>) ]
    /\ done' = [ done EXCEPT ![cRunPath(i)] = @ \cup { stageOf(i) } ]
    /\ started' = [ started EXCEPT ![cRunPath(i)] = {} ]
    /\ k' = [ k EXCEPT ![i] = @ + 1 ]
    /\ pc' = [ pc EXCEPT ![i] = "loop" ]
    /\ UNCHANGED << poolVars, status, worker, cwd, rstage, runnerVars, jobs,
                    procs, dirExists, rupFile, registryVars, loaded, failure,
                    lastFail >>

\* faulty variant of postprocess: the loop does not move on, so the stage
\* is processed and its token written again
postprocessRepeat(i) ==
    /\ AtToken(i)
    /\ stageFile' = [ stageFile EXCEPT ![saveTarget(i)] =
                           readlines(written(stageOf(i)))[1] ]
    /\ writes' = writes \cup { << cRunPath(i), saveTarget(i) >> }
    /\ log' = [ log EXCEPT ![i] = Append(@, << "post", stageOf(i) >>) ]
    /\ done' = [ done EXCEPT ![cRunPath(i)] = @ \cup { stageOf(i) } ]
    /\ started' = [ started EXCEPT ![cRunPath(i)] = {} ]
    /\ pc' = [ pc EXCEPT ![i] = "loop" ]
    /\ UNCHANGED << poolVars, status, worker, cwd, k, rstage, runnerVars, jobs,
                    procs, dirExists, rupFile, registryVars, loaded, failure,
                    lastFail >>

\* stage.postprocess(): the stage's token goes to the restart file, a
\* relative name, and the loop moves on
postprocess(i) ==
    /\ AtToken(i)
    /\ stageFile' = [ stageFile EXCEPT ![saveTarget(i)] =
                           readlines(written(stageOf(i)))[1] ]
    /\ writes' = writes \cup { << cRunPath(i), saveTarget(i) >> }
    /\ log' = [ log EXCEPT ![i] = Append(@, << "post", stageOf(i) >>) ]
    /\ done' = [ done EXCEPT ![cRunPath(i)] = @ \cup { stageOf(i) } ]
    /\ started' = [ started EXCEPT ![cRunPath(i)] = {} ]
    /\ k' = [ k EXCEPT ![i] = @ + 1 ]
    /\ pc' = [ pc EXCEPT ![i] = "loop" ]
    /\ UNCHANGED << poolVars, status, worker, cwd, rstage, runnerVars, jobs,
                    procs, dirExists, rupFile, registryVars, loaded, failure,
                    lastFail >>

(***************************************************************************)
(* Environment.                                                            *)
(***************************************************************************)
\* a job leaves the scheduler queue (it ended, or the scheduler killed it)
JobLeaves(j) ==
    /\ j \in jobs
    /\ jobs' = jobs \ { j }
    /\ UNCHANGED << poolVars, status, worker, cwd, pc, k, rstage, runnerVars,
                    procs, diskVars, registryVars, histVars >>

\* runs whose checkpoint write the termination may hit between open and close
Writing == { i \in Runs : AtToken(i) }

\* the engine's process tree is terminated from outside: what the processes
\* held in memory is gone, the disk, the registry and the scheduler stay; the
\* restart files of the runs in T were open for writing
Kill(T) ==
    /\ mainPc # "idle"
    /\ mainPc' = "idle"
    /\ exitStatus' = 137
    /\ collected' = 0
    /\ status' = [ i \in Sites |-> "Killed" ]
    /\ worker' = [ i \in Sites |-> 0 ]
    /\ cwd' = [ w \in 1..MaxWorkers |-> Base ]
    /\ pc' = [ i \in Sites |-> "begin" ]
    /\ k' = [ i \in Sites |-> 1 ]
    /\ rstage' = [ i \in Sites |-> None ]
    /\ thread' = [ i \in Sites |-> "none" ]
    /\ event' = [ i \in Sites |-> FALSE ]
    /\ nq' = [ i \in Sites |-> 0 ]
    /\ ne' = [ i \in Sites |-> 0 ]
    /\ sets' = [ i \in Sites |-> 0 ]
    /\ log' = [ i \in Sites |-> << >> ]
    /\ loaded' = [ i \in Sites |-> None ]
    /\ failure' = [ i \in Sites |-> "none" ]
    /\ procs' = {}
    /\ stageFile' = [ p \in Places |->
                        IF \E i \in T : saveTarget(i) = p THEN Truncated
                        ELSE stageFile[p] ]
    /\ lastFail' = [ d \in Dirs |->
                       IF \E i \in Runs : cRunPath(i) = d /\ status[i] = "InProgress"
                       THEN None ELSE lastFail[d] ]
    /\ UNCHANGED << nsites, workers, restart, batch, runID, jobs, dirExists,
                    rupFile, registryVars, done, started, writes >>

Next ==
    \/ \E r \in BOOLEAN : Dispatch(r)
    \/ Enqueue
    \/ \E w \in 1..MaxWorkers : StartRun(w)
    \/ Collect
    \/ CancelFuture
    \/ Shutdown
    \/ Exit
    \/ \E i \in Runs : Begin(i)
    \/ \E i \in Runs : Register(i)
    \/ \E i \in Runs : Skip(i)
    \/ \E i \in Runs : Finish(i)
    \/ \E i \in Runs, ok \in BOOLEAN : build(i, ok)
    \/ \E i \in Runs, ok \in BOOLEAN : enqueueSlurm(i, ok)
    \/ \E i \in Runs, ok \in BOOLEAN : waitForSlurmJob(i, ok)
    \/ \E i \in Runs : waitTimeout(i)
    \/ \E i \in Runs : waitReturn(i)
    \/ \E i \in Runs : runBashScript(i)
    \/ \E i \in Runs, ok \in BOOLEAN : bashExit(i, ok)
    \/ \E i \in Runs, ok \in BOOLEAN : generateRuptureFile(i, ok)
    \/ \E i \in Runs : postprocess(i)
    \/ \E j \in jobs : JobLeaves(j)
    \/ \E T \in SUBSET Writing : Kill(T)

Spec == Init /\ [][Next]_vars

SpecPool == InitPool /\ [][Next]_vars

SpecQueue == InitQueue /\ [][Next]_vars

SpecIds == InitIds /\ [][Next]_vars

SpecToken == InitToken /\ [][Next]_vars

SpecBatch == InitBatch /\ [][Next]_vars

SpecStale == InitStale /\ [][Next]_vars

\* one invocation of main in which getModelID or getERFID returns None:
\* "ERF not found." or "Model not found." is raised before the run
\* identifiers are listed and the pool is created; main prints the traceback
\* and returns
DispatchUnresolved(r) ==
    /\ mainPc = "idle"
    /\ batch < BatchLimit
    /\ r => batch > 0
    /\ restart' = r
    /\ batch' = batch + 1
    /\ exitStatus' = 0
    /\ collected' = 0
    /\ status' = [ i \in Sites |-> "NotStarted" ]
    /\ worker' = [ i \in Sites |-> 0 ]
    /\ cwd' = [ w \in 1..MaxWorkers |-> Base ]
    /\ pc' = [ i \in Sites |-> "begin" ]
    /\ k' = [ i \in Sites |-> 1 ]
    /\ rstage' = [ i \in Sites |-> None ]
    /\ log' = [ i \in Sites |-> << >> ]
    /\ loaded' = [ i \in Sites |-> None ]
    /\ failure' = [ i \in Sites |-> "none" ]
    /\ UNCHANGED << nsites, workers, mainPc, runID, runnerVars, jobs, procs,
                    diskVars, registryVars, done, started, lastFail, writes >>

\* the configuration errors main can meet before it creates the pool: the
\* file named on the command line is absent (parser raises), or a key that
\* main reads is missing (KeyError)
ConfigErrors == { "absent", "key" }

\* one invocation of main that meets a configuration error: the exception is
\* caught by "except Exception as error", the traceback is printed and main
\* returns, so the interpreter exits with status 0
configError(e) ==
    /\ e \in ConfigErrors
    /\ mainPc = "idle"
    /\ batch < BatchLimit
    /\ batch' = batch + 1
    /\ exitStatus' = 0
    /\ collected' = 0
    /\ status' = [ i \in Sites |-> "NotStarted" ]
    /\ worker' = [ i \in Sites |-> 0 ]
    /\ cwd' = [ w \in 1..MaxWorkers |-> Base ]
    /\ pc' = [ i \in Sites |-> "begin" ]
    /\ k' = [ i \in Sites |-> 1 ]
    /\ rstage' = [ i \in Sites |-> None ]
    /\ log' = [ i \in Sites |-> << >> ]
    /\ loaded' = [ i \in Sites |-> None ]
    /\ failure' = [ i \in Sites |-> "none" ]
    /\ UNCHANGED << nsites, workers, restart, mainPc, runID, runnerVars, jobs,
                    procs, diskVars, registryVars, done, started, lastFail,
                    writes >>

NextConfig ==
    \/ Next
    \/ \E e \in ConfigErrors : configError(e)

SpecConfig == Init /\ [][NextConfig]_vars

(***************************************************************************)
(* The engine when every external call succeeds, nothing terminates it     *)
(* and every job leaves the scheduler queue: the operating system          *)
(* schedules main, every worker process and every polling thread, and the  *)
(* scheduler ends every job.                                               *)
(***************************************************************************)
\* the configurations of InitPool, and one site started in the workspace a
\* terminated invocation has left, with a restart file
InitLive ==
    /\ workers \in 1..MaxWorkers
    /\ \/ nsites \in { 1, NSites } /\ Fresh
       \/ /\ nsites = 1
          /\ EngineStopped
          /\ AllRegistered
          /\ Workspace({ 1 })
          /\ \E t \in staleTokens :
                 stageFile = [ p \in Places |->
                                 IF p = << 1, 1 >> THEN t ELSE None ]

\* a step of main
MainStep ==
    \/ \E r \in BOOLEAN : Dispatch(r)
    \/ Collect

\* a step of the pool: a call item enters the call queue, a worker takes one
PoolStep ==
    \/ Enqueue
    \/ \E w \in 1..MaxWorkers : StartRun(w)

\* a step of run i in its worker process, every external call succeeding
WorkerStep(i) ==
    \/ Begin(i)
    \/ Register(i)
    \/ Skip(i)
    \/ Finish(i)
    \/ build(i, TRUE)
    \/ enqueueSlurm(i, TRUE)
    \/ waitReturn(i)
    \/ runBashScript(i)
    \/ bashExit(i, TRUE)
    \/ generateRuptureFile(i, TRUE)
    \/ postprocess(i)

NextLive ==
    \/ MainStep
    \/ PoolStep
    \/ \E i \in Runs : WorkerStep(i)
    \/ \E i \in Runs : waitForSlurmJob(i, TRUE)
    \/ \E i \in Runs : waitTimeout(i)
    \/ \E j \in jobs : JobLeaves(j)

Fairness ==
    /\ WF_vars(Collect)
    /\ WF_vars(PoolStep)
    /\ \A i \in Sites : WF_vars(i \in Runs /\ WorkerStep(i))
    /\ \A i \in Sites : WF_vars(i \in Runs /\ waitForSlurmJob(i, TRUE))
    /\ WF_vars(\E j \in jobs : JobLeaves(j))

SpecLive == InitLive /\ [][NextLive]_vars /\ Fairness

NextLookup ==
    \/ Next
    \/ \E r \in BOOLEAN : DispatchUnresolved(r)

SpecLookup == InitLookup /\ [][NextLookup]_vars

(***************************************************************************)
(* The run registry on its own: addRunInfo called with any run identifier *)
(* and site identifier, in any order.                                      *)
(***************************************************************************)
\* largest run identifier passed to addRunInfo
MaxRows == 3

InitRegistry ==
    /\ nsites = NSites
    /\ workers = 1
    /\ Fresh

\* dal.addRunInfo(id, siteID, ...)
addRunInfoCall(id, siteID) ==
    /\ runsTable' = addRunInfo(runsTable, id, siteID)
    /\ calls' = calls \cup { [ Run_ID |-> id, Site_ID |-> siteID ] }
    /\ firstCall' = [ firstCall EXCEPT ![id] = IF @ = 0 THEN siteID ELSE @ ]
    /\ UNCHANGED << txn, CyberShake_Sites >>
    /\ UNCHANGED << poolVars, status, worker, cwd, pc, k, rstage, runnerVars,
                    jobs, procs, diskVars, log, loaded, failure, done, started,
                    lastFail, writes >>

NextRegistry ==
    \E id \in 1..MaxRows, siteID \in 1..NSites : addRunInfoCall(id, siteID)

SpecRegistry == InitRegistry /\ [][NextRegistry]_vars

(***************************************************************************)
(* addRunInfo called from several processes at once, each on its own       *)
(* connection: cursor.execute(insert) opens a transaction and takes the    *)
(* write lock of the database file, connection.commit() makes the row      *)
(* visible and releases the lock.  While another connection holds the      *)
(* write lock, execute waits in sqlite's busy handler.                     *)
(***************************************************************************)
Connections == 1..MaxWorkers

engineVars ==
    << poolVars, status, worker, cwd, pc, k, rstage, runnerVars, jobs, procs,
       diskVars, CyberShake_Sites, log, loaded, failure, done, started,
       lastFail, writes >>

\* the write lock of the database file is held by a connection other than c
lockedByOther(c) == \E o \in Connections \ { c } : txn[o].pc = "commit"

\* a process enters addRunInfo(id, siteID, ...)
enterAddRunInfo(c, id, siteID) ==
    /\ txn[c].pc = "idle"
    /\ txn' = [ txn EXCEPT ![c] =
                  [ pc |-> "execute", Run_ID |-> id, Site_ID |-> siteID,
                    inserted |-> FALSE ] ]
    /\ calls' = calls \cup { [ Run_ID |-> id, Site_ID |-> siteID ] }
    /\ UNCHANGED << runsTable, firstCall, engineVars >>

\* faulty variant of executeInsert: the insert does not wait for the write
\* lock
executeInsertUnlocked(c) ==
    /\ txn[c].pc = "execute"
    /\ txn' = [ txn EXCEPT ![c].pc = "commit",
                           ![c].inserted = RowsWith(txn[c].Run_ID) = {} ]
    /\ firstCall' = [ firstCall EXCEPT ![txn[c].Run_ID] =
                        IF @ = 0 THEN txn[c].Site_ID ELSE @ ]
    /\ UNCHANGED << runsTable, calls, engineVars >>

\* self.cursor.execute(query) in the try block: the row is inserted in the
\* transaction, or sqlite3.IntegrityError is swallowed
executeInsert(c) ==
    /\ txn[c].pc = "execute"
    /\ ~lockedByOther(c)
    /\ txn' = [ txn EXCEPT ![c].pc = "commit",
                           ![c].inserted = RowsWith(txn[c].Run_ID) = {} ]
    /\ firstCall' = [ firstCall EXCEPT ![txn[c].Run_ID] =
                        IF @ = 0 THEN txn[c].Site_ID ELSE @ ]
    /\ UNCHANGED << runsTable, calls, engineVars >>

\* self.connection.commit()
commit(c) ==
    /\ txn[c].pc = "commit"
    /\ runsTable' =
           IF txn[c].inserted
           THEN runsTable \cup { [ Run_ID |-> txn[c].Run_ID, Site_ID |-> txn[c].Site_ID ] }
           ELSE runsTable
    /\ txn' = [ txn EXCEPT ![c] = NoCall ]
    /\ UNCHANGED << calls, firstCall, engineVars >>

NextRace ==
    \/ \E c \in Connections, id \in 1..MaxRows, siteID \in 1..NSites :
           enterAddRunInfo(c, id, siteID)
    \/ \E c \in Connections : executeInsert(c)
    \/ \E c \in Connections : commit(c)

SpecRace == InitRegistry /\ [][NextRace]_vars

(***************************************************************************)
(* Properties.                                                             *)
(***************************************************************************)
IsPrefix(a, b) == Len(a) <= Len(b) /\ a = SubSeq(b, 1, Len(a))

ops == << "build", "run", "post" >>

\* build, run, post of every stage from position n on, in workflow order
OpsFrom(n) ==
    [ m \in 1..(3 * (NStages + 1 - n)) |->
        << ops[((m - 1) % 3) + 1], wf[n + ((m - 1) \div 3)] >> ]

\* C1: a run that loaded the stage identifier T as its resume token builds,
\* executes and postprocesses the stages strictly after T, in workflow order
\* and nothing else (so never T or a stage before it); a run that completed
\* has processed all of them.
C1_ResumeAfterToken ==
    \A i \in Runs :
        loaded[i] \in Stages =>
            /\ IsPrefix(log[i], OpsFrom(StageIndex(loaded[i]) + 1))
            /\ status[i] = "Completed" =>
                   log[i] = OpsFrom(StageIndex(loaded[i]) + 1)

\* a run resumed from checkX has completed, checkY being its first stage
C1_Witness ==
    \E i \in Runs :
        /\ loaded[i] = "checkX"
        /\ status[i] = "Completed"
        /\ Head(log[i]) = << "build", "checkY" >>

\* run i leaves the head of runSite on this step (the engine is not killed)
LeavesBegin(i) ==
    /\ At(i, "begin")
    /\ mainPc' = mainPc
    /\ (status'[i] # "InProgress" \/ pc'[i] # "begin")

\* C2: a run started in restart mode whose restart file holds the last stage,
\* cleanUp, returns at once as completed: nothing is built, executed or
\* postprocessed, no job is submitted and no child process started, no
\* registry row is inserted, and the restart file, the working directories
\* and every other file stay as they were.
C2_AlreadyDoneNoEffect ==
    /\ [][ \A i \in Runs :
             (LeavesBegin(i) /\ restart /\ loadRstage(i) = lastStage) =>
                 /\ status'[i] = "Completed"
                 /\ UNCHANGED << log, jobs, procs, registryVars, stageFile,
                                 rupFile, dirExists, writes, thread, cwd,
                                 started, done >>
         ]_vars
    /\ [](\A i \in Runs :
             (restart /\ loaded[i] = lastStage) =>
                 status[i] = "Completed" /\ log[i] = << >>)

\* a restarted run has found cleanUp in its restart file and has returned
C2_Witness ==
    \E i \in Runs :
        /\ restart
        /\ loaded[i] = lastStage
        /\ status[i] = "Completed"
        /\ stageFile[cRunPath(i)] = "cleanUp"

\* the stages at or before position n have been postprocessed in directory d
DoneUpTo(d, n) == \A m \in 1..n : wf[m] \in done[d]

\* positions of the stages that are being built or executed for directory d:
\* built since the last write of its restart file, or holding a scheduler job
\* or a child process
ActiveIn(d) ==
    { StageIndex(s) : s \in started[d] }
        \cup { StageIndex(j.stage) : j \in { e \in jobs \cup procs : e.dir = d } }

\* C3: in every reachable state, kill and restart included, if the restart
\* file of a working directory holds stage T then every stage at or before T
\* has been built, executed and postprocessed, and the only stage after T
\* that may have started building or executing is the immediate successor
\* of T.
C3_CheckpointInvariant ==
    \A d \in Dirs :
        stageFile[d] \in Stages =>
            /\ DoneUpTo(d, StageIndex(stageFile[d]))
            /\ \A n \in ActiveIn(d) : n <= StageIndex(stageFile[d]) + 1

\* after a restart the restart file holds AWPX while the job of AWPY, built
\* and submitted again, is waited for
C3_Witness ==
    \E i \in Runs :
        /\ restart
        /\ stageFile[cRunPath(i)] = "AWPX"
        /\ At(i, "wait")
        /\ stageOf(i) = "AWPY"
        /\ started[cRunPath(i)] = { "AWPY" }

\* C3 as stated: no stage after T has started building or executing at all
C3_NoStageAfterStarted ==
    \A d \in Dirs :
        stageFile[d] \in Stages =>
            /\ DoneUpTo(d, StageIndex(stageFile[d]))
            /\ \A n \in ActiveIn(d) : n <= StageIndex(stageFile[d])

\* C4: for a scheduler job whose status query answers a non-empty line N
\* times and then nothing, the completion event is set exactly once, by the
\* (N+1)-th query, and enqueueSlurm returns (so that postprocess and the
\* restart file write can follow) only after that query has answered empty.
C4_EventSetOnceAfterEmptyAnswer ==
    /\ [](\A i \in Runs :
             /\ sets[i] <= 1
             /\ event[i] <=> sets[i] = 1
             /\ event[i] => nq[i] = ne[i] + 1 /\ thread[i] = "done"
             /\ (At(i, "wait") /\ ~event[i]) => nq[i] = ne[i])
    /\ [][ \A i \in Runs :
             (At(i, "wait") /\ pc'[i] = "post") =>
                 /\ event[i]
                 /\ sets[i] = 1
                 /\ nq[i] = ne[i] + 1
                 /\ JobOf(i) \notin jobs
         ]_vars

\* the event is set after MaxPolls non-empty answers and one empty answer
C4_Witness ==
    \E i \in Runs :
        /\ At(i, "wait")
        /\ event[i]
        /\ ne[i] = MaxPolls
        /\ nq[i] = MaxPolls + 1
        /\ sets[i] = 1

\* the token the restart file holds before stage number n is postprocessed
TokenBefore(n) == IF n = 1 THEN None ELSE wf[n - 1]

\* C5: when the sbatch call of a scheduler stage s exits non-zero, no polling
\* thread is started and no job is queued, the run is Failed, the restart
\* file keeps the token of the predecessor of s (or stays absent), and the
\* submission of s is the last stage operation of that run.
C5_SubmitFailureIsFatal ==
    \A i \in Runs :
        failure[i] = "sbatch" =>
            /\ status[i] = "Failed"
            /\ thread[i] = "none"
            /\ ~event[i]
            /\ JobOf(i) \notin jobs
            /\ stageFile[cRunPath(i)] = TokenBefore(k[i])
            /\ stageOf(i) \notin done[cRunPath(i)]
            /\ log[i] # << >>
            /\ log[i][Len(log[i])] = << "run", stageOf(i) >>
            /\ \A m \in 1..Len(log[i]) : StageIndex(log[i][m][2]) <= k[i]

\* the submission of a stage other than the first has failed
C5_Witness ==
    \E i \in Runs :
        /\ failure[i] = "sbatch"
        /\ stageOf(i) = "AWPX"
        /\ status[i] = "Failed"
        /\ stageFile[cRunPath(i)] = "preAWP"

\* a step of run i or of its polling thread other than a timeout of the wait
RunStep(i) ==
    \/ Begin(i)
    \/ Register(i)
    \/ Skip(i)
    \/ Finish(i)
    \/ \E ok \in BOOLEAN : build(i, ok)
    \/ \E ok \in BOOLEAN : enqueueSlurm(i, ok)
    \/ \E ok \in BOOLEAN : waitForSlurmJob(i, ok)
    \/ waitReturn(i)
    \/ runBashScript(i)
    \/ \E ok \in BOOLEAN : bashExit(i, ok)
    \/ \E ok \in BOOLEAN : generateRuptureFile(i, ok)
    \/ postprocess(i)

\* C6: when a status query (squeue) of a polled job exits non-zero, the
\* failure is fatal to the run: the wait of the execute step ends and the run
\* becomes Failed, that is, a run whose query has failed is Failed or can
\* still take a step other than one more timeout of its wait.
C6_QueryFailureIsFatal ==
    \A i \in Runs :
        failure[i] = "squeue" =>
            \/ status[i] = "Failed"
            \/ ENABLED RunStep(i)

\* C7: after a run has failed with an execution error at stage s (a local
\* script exiting non-zero or a failed submission), a later run of the same
\* site and run id in restart mode loads the token of the predecessor of s
\* (none when s is preSGT), skips every stage before s, and builds and
\* executes s first, then the stages after s in order.
C7_RestartResumesAtFailedStage ==
    \A i \in Runs :
        (/\ restart
         /\ status[i] = "InProgress"
         /\ pc[i] # "begin"
         /\ lastFail[cRunPath(i)] \in Stages) =>
            LET n == StageIndex(lastFail[cRunPath(i)])
            IN  /\ loaded[i] = TokenBefore(n)
                /\ IsPrefix(log[i], OpsFrom(n))
                /\ (pc[i] \notin { "register", "loop" }) =>
                       Head(log[i]) = << "build", lastFail[cRunPath(i)] >>

\* the run before failed in the local script of rupVar; the restarted run
\* has skipped the eight stages before it and executes rupVar again
C7_Witness ==
    \E i \in Runs :
        /\ restart
        /\ At(i, "exec")
        /\ lastFail[cRunPath(i)] = "rupVar"
        /\ log[i] = << << "build", "rupVar" >>, << "run", "rupVar" >> >>

\* C8: when one run of a batch fails on a stage error the other runs of the
\* batch are unaffected: none of them is cancelled, the runs waiting for a
\* free worker are still started, and when main returns every dispatched run
\* has reached its own Completed or Failed state.
C8_SiblingsUnaffected ==
    /\ \A i \in Runs : status[i] # "Cancelled"
    /\ (batch > 0 /\ mainPc = "idle" /\ \A i \in Runs : status[i] # "Killed") =>
           \A i \in Runs : status[i] \in { "Completed", "Failed" }

\* C9: in every interleaving the worker pool allows, a worker process that
\* executes several runs one after another included, every file a run writes
\* (stage scripts, restart file, configuration and rupture files) is written
\* inside the run's own working directory, never in the directory of another
\* run nor in the workspace itself.
C9_WritesStayInOwnDirectory ==
    /\ \A w \in writes : w[1] = w[2]
    /\ stageFile[Base] = None
    /\ \A i \in Runs :
           (status[i] = "InProgress" /\ pc[i] \notin { "begin", "register" }) =>
               saveTarget(i) = cRunPath(i)
    /\ \A i, j \in Runs : i # j => cRunPath(i) # cRunPath(j)

\* a worker process that has executed one run executes a second one, which
\* has written its restart file
C9_Witness ==
    \E i, j \in Runs :
        /\ i # j
        /\ workers = MaxWorkers
        /\ worker[i] = worker[j]
        /\ status[j] = "Completed"
        /\ status[i] = "InProgress"
        /\ stageFile[cRunPath(i)] = "preSGT"
        /\ << cRunPath(i), cRunPath(i) >> \in writes

\* executions of the stages that are active: scheduler jobs and child processes
Active == jobs \cup procs

\* C10: at any time at most one execution of a stage of a pipeline instance
\* (scheduler job or local child process) is active, also after the engine
\* was terminated while a submitted job was queued or running and the same
\* site is run again in restart mode.
C10_AtMostOneActiveExecution ==
    \A a, b \in Active : (a.dir = b.dir /\ a.stage = b.stage) => a = b

\* executions that run i has started in this invocation and that are active
ActiveOf(i) == { j \in Active : j.dir = cRunPath(i) /\ j.batch = batch }

\* C11: within one run the stages are processed one at a time in workflow
\* order: the operations of the run are build, execute, postprocess of one
\* stage, then of the next one, with no stage left out or taken out of order;
\* the build of a stage starts only after the postprocess of the stage before
\* has returned, and while a job or child process of the run is active the
\* run is inside the execute step of that very stage.
C11_StagesSequentialInOrder ==
    \A i \in Runs :
        /\ log[i] # << >> =>
               /\ log[i][1][1] = "build"
               /\ IsPrefix(log[i], OpsFrom(StageIndex(log[i][1][2])))
        /\ status[i] = "InProgress" =>
               /\ Cardinality(ActiveOf(i)) <= 1
               /\ \A j \in ActiveOf(i) :
                      j.stage = stageOf(i) /\ pc[i] \in { "wait", "exec" }
        /\ (status[i] = "InProgress" /\ pc[i] \in { "run", "wait", "exec", "post", "token" }) =>
               log[i][Len(log[i])][2] = stageOf(i)

\* the third stage of a run is waiting for its job, the two stages before
\* having been built, executed and postprocessed
C11_Witness ==
    \E i \in Runs :
        /\ At(i, "wait")
        /\ stageOf(i) = "AWPX"
        /\ JobOf(i) \in jobs
        /\ Len(log[i]) = 8
        /\ log[i][6] = << "post", "preAWP" >>

\* run i writes the token of its current stage to its restart file on this
\* step
WritesToken(i) ==
    /\ status[i] = "InProgress"
    /\ stageFile'[cRunPath(i)] # stageFile[cRunPath(i)]
    /\ stageFile'[cRunPath(i)] \in Stages

\* C12: the token of a stage s is written to the restart file only after the
\* execute step of s has succeeded (the local script has exited with code 0,
\* or the job was submitted and has left the scheduler queue); when the build
\* or the execute step of s fails, postprocess of s is not called and the
\* restart file keeps what it held before s.
C12_TokenOnlyAfterExecuteSucceeded ==
    /\ [][ \A i \in Runs :
             WritesToken(i) =>
                 /\ stageFile'[cRunPath(i)] = stageOf(i)
                 /\ pc[i] \in { "post", "token" }
                 /\ failure[i] = "none"
                 /\ log[i][Len(log[i])] = << "run", stageOf(i) >>
                 /\ ActiveOf(i) = {}
         ]_vars
    /\ [](\A i \in Runs :
             failure[i] # "none" =>
                 /\ pc[i] # "token"
                 /\ log[i][Len(log[i])] \in
                        { << "build", stageOf(i) >>, << "run", stageOf(i) >> }
                 /\ stageFile[cRunPath(i)] = TokenBefore(k[i])
                 /\ stageOf(i) \notin done[cRunPath(i)])

\* the build of a stage other than the first has failed and the restart file
\* holds the token of the stage before it
C12_Witness ==
    \E i \in Runs :
        /\ failure[i] = "build"
        /\ status[i] = "Failed"
        /\ stageOf(i) = "rupVar"
        /\ stageFile[cRunPath(i)] = "postY"

RowsOf(id) == { row \in runsTable : row.Run_ID = id }

\* C14: addRunInfo called twice with the same run identifier, with the same
\* or with other values, leaves exactly one row with that identifier, the
\* row of the first call: every identifier passed so far has one row, and
\* a row once inserted stays as it is.
C14_DuplicateRunIdKeepsFirstRow ==
    /\ [](\A c \in calls : Cardinality(RowsOf(c.Run_ID)) = 1)
    /\ [](runsTable \subseteq calls)
    /\ [][ \A row \in runsTable : row \in runsTable' ]_vars

\* addRunInfo was called twice for one run identifier with different sites
C14_Witness ==
    \E a, b \in calls :
        /\ a.Run_ID = b.Run_ID
        /\ a.Site_ID # b.Site_ID
        /\ Cardinality(RowsOf(a.Run_ID)) = 1

\* connections inside an addRunInfo call for run identifier id
InFlight(id) == { c \in Connections : txn[c].pc # "idle" /\ txn[c].Run_ID = id }

\* C15: when processes executing at once insert a row with the same key,
\* then in every interleaving of their insert and commit steps there is never
\* more than one row with the key, the row holds the values of the process
\* whose insert was executed first, it is there once the calls have
\* returned, and a committed row is never changed or lost.
C15_ConcurrentInsertFirstWins ==
    /\ [](\A id \in 1..MaxRows :
             /\ Cardinality(RowsWith(id)) <= 1
             /\ \A row \in RowsWith(id) : row.Site_ID = firstCall[id]
             /\ (firstCall[id] # 0 /\ InFlight(id) = {}) =>
                    RowsWith(id) = { [ Run_ID |-> id, Site_ID |-> firstCall[id] ] })
    /\ [][ \A row \in runsTable : row \in runsTable' ]_vars

\* two processes are inside addRunInfo for the same key with different
\* values: the first has inserted and not yet committed, the insert of the
\* second waits for the write lock
C15_Witness ==
    \E c, o \in Connections :
        /\ txn[c].pc = "commit"
        /\ txn[c].inserted
        /\ txn[o].pc = "execute"
        /\ txn[o].Run_ID = txn[c].Run_ID
        /\ txn[o].Site_ID # txn[c].Site_ID
        /\ RowsWith(txn[c].Run_ID) = {}

\* main starts an invocation on this step
Dispatches == mainPc = "idle" /\ mainPc' = "collect"

\* C16: without restart the i-th site of the list (counted from 0) gets the
\* run identifier getValidRunId() + i, where getValidRunId() is 1 on an empty
\* runs table and the largest Run_ID plus 1 otherwise, and its working
\* directory is named by the site and that identifier; the identifiers of
\* one invocation are pairwise distinct, and two sites on a fresh registry
\* get 1 and 2.
C16_RunIdsWithoutRestart ==
    /\ [][ (Dispatches /\ ~restart') =>
             /\ runsTable = {} => \A i \in Runs : runID'[i] = i
             /\ runsTable # {} =>
                    \E top \in runsTable :
                        /\ \A row \in runsTable : row.Run_ID <= top.Run_ID
                        /\ \A i \in Runs : runID'[i] = top.Run_ID + i
         ]_vars
    /\ [](\A i, j \in Runs : i # j => runID[i] # runID[j])
    /\ [](\A i \in Runs :
             (status[i] = "InProgress" /\ pc[i] # "begin") =>
                 /\ dirExists[<< i, runID[i] >>]
                 /\ Cwd(i) = << i, runID[i] >>)

\* two sites on a fresh registry: the directories of site 1 with run
\* identifier 1 and of site 2 with run identifier 2 exist
C16_Witness ==
    /\ ~restart
    /\ nsites = 2
    /\ runID[1] = 1 /\ runID[2] = 2
    /\ dirExists[<< 1, 1 >>] /\ dirExists[<< 2, 2 >>]
    /\ \A d \in Dirs : dirExists[d] => d \in { << 1, 1 >>, << 2, 2 >> }

\* run identifiers of the working directories on disk
DiskIds == { d[2] : d \in { e \in Dirs : dirExists[e] } }

\* C17: with restart, when the output path holds working directories the
\* starting run identifier is the numerically smallest suffix on disk,
\* suffixes of different length included (9 and 10 give 9); when it holds
\* none the starting run identifier is getValidRunId().
C17_RestartTakesSmallestIdOnDisk ==
    [][ (Dispatches /\ restart') =>
            runID'[1] = IF DiskIds # {} THEN Min(DiskIds) ELSE getValidRunId
      ]_vars

\* runs in progress
InProgress == { i \in Runs : status[i] = "InProgress" }

\* C18: never more runs are in progress than the configured number of
\* workers, a worker process executes at most one run at a time, and one
\* run is dispatched per entry of the site list: a run is started only from
\* the pool's queue, so at most once in an invocation.
C18_PoolBound ==
    /\ [](Cardinality(InProgress) <= workers)
    /\ [](\A i \in InProgress : worker[i] \in 1..workers)
    /\ [](\A i, j \in InProgress : i # j => worker[i] # worker[j])
    /\ [][ \A i \in Runs :
             (status'[i] = "InProgress" /\ status[i] # "InProgress") =>
                 status[i] = "Queued"
         ]_vars

\* more sites than workers: the second run waits in the pool's queue while
\* the only worker executes the first
C18_Witness ==
    /\ workers = 1
    /\ nsites = NSites
    /\ At(1, "wait")
    /\ status[2] = "Queued"

\* run i loaded a resume token that is no stage identifier
UnknownToken(i) == loaded[i] \notin Stages \cup { None }

\* C19: a run that loaded a resume token equal to no stage identifier
\* builds, executes and postprocesses nothing and raises no error, its
\* restart file keeps the token, and when it ends it ends as completed.
C19_UnknownTokenSkipsEverything ==
    /\ [](\A i \in Runs : UnknownToken(i) =>
             /\ log[i] = << >>
             /\ failure[i] = "none"
             /\ \A j \in jobs \cup procs : j.dir # cRunPath(i)
             /\ thread[i] = "none"
             /\ rstage[i] = loaded[i]
             /\ stageFile[cRunPath(i)] = loaded[i]
             /\ status[i] \in { "InProgress", "Completed" })
    /\ [][ \A i \in Runs :
             (UnknownToken(i) /\ At(i, "loop") /\ k[i] > NStages) =>
                 status'[i] \in { "InProgress", "Completed", "Killed" }
         ]_vars

\* the loop of a run that loaded a retired token is exhausted and the run
\* has returned
C19_Witness ==
    \E i \in Runs :
        /\ loaded[i] \in retiredTokens
        /\ status[i] = "Completed"
        /\ pc[i] = "loop"
        /\ k[i] = NStages + 1

\* the executions and submissions of run i in the present invocation
Executions(i) == { n \in DOMAIN log[i] : log[i][n][1] = "run" }

\* C20: within one run no stage is executed or submitted twice, and after
\* the first failure of a stage the run executes and submits nothing and
\* builds and postprocesses nothing: its history stays as it is until a new
\* invocation starts a new run.
C20_NoRetry ==
    /\ [](\A i \in Runs : \A m, n \in Executions(i) :
             log[i][m] = log[i][n] => m = n)
    /\ [][ \A i \in Runs :
             (failure[i] # "none" /\ failure'[i] # "none") =>
                 /\ log'[i] = log[i]
                 /\ \A j \in (jobs' \cup procs') \ (jobs \cup procs) :
                        j.dir # cRunPath(i)
         ]_vars

\* a run whose second stage failed at submission has ended with one
\* submission of each of the two stages
C20_Witness ==
    \E i \in Runs :
        /\ failure[i] = "sbatch"
        /\ status[i] = "Failed"
        /\ log[i] = << << "build", "preSGT" >>, << "run", "preSGT" >>,
                       << "post", "preSGT" >>, << "build", "preAWP" >>,
                       << "run", "preAWP" >> >>

\* the site of run i has no row in CyberShake_Sites
Unregistered(i) == i \notin CyberShake_Sites

C22_SlotInRange ==
    \A i \in Runs :
        status[i] = "InProgress" =>
            /\ slotId(runID[i]) \in 0..(2 * workers - 1)
            /\ stageId(runID[i]) \in 0..(2 * workers - 1)
            /\ \A r \in RunIds :
                   r % 2 = runID[i] % 2 =>
                       slotId(r) = slotId(runID[i]) /\ stageId(r) = stageId(runID[i])

\* the status changes of a run: it waits in the pool, is started, and
\* returns or raises
StatusSteps ==
    [][ \A i \in Runs :
          (status'[i] # status[i] /\ batch' = batch /\ status'[i] # "Killed") =>
              << status[i], status'[i] >> \in
                  { << "NotStarted", "Queued" >>, << "NotStarted", "Cancelled" >>,
                    << "Queued", "InProgress" >>,
                    << "InProgress", "Completed" >>, << "InProgress", "Failed" >> }
      ]_vars

\* a run completes at the "Already done" return or after the postprocess of
\* the last stage
CompletedOnlyAtEnd ==
    [][ \A i \in Runs :
          (status[i] = "InProgress" /\ status'[i] = "Completed") =>
              \/ pc[i] = "begin" /\ alreadyDone(loadRstage(i))
              \/ /\ log[i] # << >>
                 /\ log[i][Len(log[i])] = << "post", lastStage >>
      ]_vars

\* a run in which an external call of a stage has failed is Failed
FailedOnStageError ==
    [](\A i \in Runs : failure[i] # "none" => status[i] = "Failed")

\* nothing happens in a run that is Completed or Failed
EndStatesTerminal ==
    [][ \A i \in Runs :
          (status[i] \in { "Completed", "Failed" } /\ batch' = batch
              /\ status'[i] # "Killed") =>
              /\ status'[i] = status[i]
              /\ log'[i] = log[i]
              /\ stageFile'[cRunPath(i)] = stageFile[cRunPath(i)]
              /\ \A j \in (jobs' \cup procs') \ (jobs \cup procs) :
                     j.dir # cRunPath(i)
      ]_vars

\* C23: a run goes from NotStarted to InProgress and from there to
\* Completed or Failed; it becomes Completed only after the postprocess of
\* the last stage or at the "Already done" return, it is Failed whenever a
\* stage of it has met an error, and in a Completed or Failed run there is
\* no further stage operation and no write of the restart file.
C23_RunStateMachine ==
    /\ StatusSteps
    /\ CompletedOnlyAtEnd
    /\ FailedOnStageError
    /\ EndStatesTerminal

\* C24: an invocation that meets a configuration error in main starts no
\* run, changes neither the workspace nor the registry, and ends with an
\* exit status other than 0.
C24_ConfigErrorIsFatal ==
    [][ (\E e \in ConfigErrors : configError(e)) =>
            /\ \A i \in Runs : status'[i] = "NotStarted"
            /\ mainPc' = "idle"
            /\ << diskVars, registryVars, jobs, procs >>' =
                   << diskVars, registryVars, jobs, procs >>
            /\ exitStatus' # 0
      ]_vars

\* C25: what the postprocess of each stage s of the workflow writes to the
\* restart file is one line equal to the identifier of s; read back as
\* readlines()[0] it is a token equal to s, which the resume loop matches at
\* the position of s and which is the "Already done" token when s is
\* cleanUp; and every write of the restart file by a run stores the token
\* of the stage the run is at.
C25_CheckpointRoundTrip ==
    /\ [](\A s \in Stages :
             /\ Len(readlines(written(s))) = 1
             /\ readlines(written(s))[1] = s
             /\ wf[StageIndex(readlines(written(s))[1])] = s
             /\ alreadyDone(readlines(written(s))[1]) <=> s = "cleanUp")
    /\ [][ \A i \in Runs :
             (AtToken(i) /\ status'[i] = "InProgress"
                 /\ stageFile'[saveTarget(i)] # stageFile[saveTarget(i)]) =>
                 stageFile'[saveTarget(i)] = stageOf(i)
         ]_vars
    /\ [](\A i \in Runs :
             (loaded[i] \notin { None, Truncated }) => loaded[i] \in Stages)

\* a restarted run has read the token written by the postprocess of rupVar
\* and its loop has matched it: the next stage it takes is runDS
C25_Witness ==
    \E i \in Runs :
        /\ restart
        /\ loaded[i] = "rupVar"
        /\ At(i, "loop")
        /\ rstage[i] = None
        /\ stageOf(i) = "runDS"
        /\ stageFile[cRunPath(i)] = "rupVar"

\* a restarted run reads a restart file that is absent or holds a whole
\* stage identifier
RestartReadsWholeToken ==
    [][ \A i \in Runs :
          (Begin(i) /\ restart) => loadRstage(i) \in Stages \cup { None }
      ]_vars

\* a restarted run builds, executes and postprocesses no stage whose
\* postprocess has returned in its directory, and when it completes every
\* stage has been postprocessed there
RestartRunsTheRest ==
    /\ [][ \A i \in Runs :
             (restart /\ status[i] = "InProgress" /\ Len(log'[i]) > Len(log[i])) =>
                 log'[i][Len(log'[i])][2] \notin done[cRunPath(i)]
         ]_vars
    /\ [](\A i \in Runs :
             (restart /\ status[i] = "Completed") => done[cRunPath(i)] = Stages)

\* C26: after the engine was terminated from outside at any point, a
\* restart reads a restart file that is absent or a whole stage identifier,
\* never an empty one, and executes exactly the stages whose postprocess had
\* not completed.
C26_SafeResumeAfterTermination ==
    /\ RestartReadsWholeToken
    /\ RestartRunsTheRest

\* C27: an invocation in restart mode gives every site the run identifier
\* of the working directory that the earlier invocation for the same site
\* list created for it.
C27_RestartKeepsRunIds ==
    [][ (Dispatches /\ restart') =>
            \A i \in Runs : \A n \in RunIds :
                dirExists[<< i, n >>] => runID'[i] = n
      ]_vars

\* C28: a run loads no resume token when the restart flag is off, whatever
\* the restart file in its directory, and when the flag is on and the
\* directory or the file does not exist; a run without resume token builds,
\* executes and postprocesses the stages in workflow order from preSGT on,
\* and when it completes it has processed all of them.
C28_NoTokenRunsEverything ==
    /\ [][ \A i \in Runs :
             (Begin(i) /\ (~restart \/ ~dirExists[cRunPath(i)]
                             \/ stageFile[cRunPath(i)] = None)) =>
                 /\ loaded'[i] = None
                 /\ rstage'[i] = None
                 /\ At(i, "register")'
         ]_vars
    /\ [](\A i \in Runs :
             (loaded[i] = None /\ pc[i] # "begin") =>
                 /\ IsPrefix(log[i], OpsFrom(1))
                 /\ status[i] = "Completed" => log[i] = OpsFrom(1))

\* the restart flag is off and the directory of the run holds the restart
\* file of an earlier invocation: the run has built its first stage, preSGT
C28_Witness ==
    /\ ~restart
    /\ stageFile[cRunPath(1)] = "preAWP"
    /\ loaded[1] = None
    /\ At(1, "run")
    /\ log[1] = << << "build", "preSGT" >> >>

\* the token the restart file of run i holds as far as the run knows: the
\* one it wrote last, or else its resume token
LastToken(i) ==
    LET posts == { n \in DOMAIN log[i] : log[i][n][1] = "post" }
    IN  IF posts = {} THEN loaded[i] ELSE log[i][Max(posts)][2]

\* C29: every write of the restart file by a run stores the immediate
\* successor, in workflow order, of the token the run wrote before, or of
\* its resume token, or preSGT when it has neither; so within a run the
\* stored stage only moves forward.
C29_CheckpointMovesForward ==
    [][ \A i \in Runs :
          (status[i] = "InProgress" /\ status'[i] = "InProgress"
              /\ \/ stageFile'[cRunPath(i)] # stageFile[cRunPath(i)]
                 \/ /\ Len(log'[i]) > Len(log[i])
                    /\ log'[i][Len(log'[i])][1] = "post") =>
              /\ StageIndex(LastToken(i)) < NStages
              /\ stageFile'[cRunPath(i)] = wf[StageIndex(LastToken(i)) + 1]
              /\ StageIndex(stageFile'[cRunPath(i)])
                     > StageIndex(stageFile[cRunPath(i)])
      ]_vars

\* a run resumed from checkX has written the tokens of checkY and postX
C29_Witness ==
    \E i \in Runs :
        /\ loaded[i] = "checkX"
        /\ status[i] = "InProgress"
        /\ stageFile[cRunPath(i)] = "postX"
        /\ LastToken(i) = "postX"

\* C30: when every external call succeeds and every job leaves the
\* scheduler queue, under fair scheduling every run of an invocation
\* becomes Completed with cleanUp in its restart file, and main returns.
C30_EveryRunCompletes ==
    /\ \A i \in Sites :
           (mainPc = "collect" /\ i \in Runs) ~>
               (status[i] = "Completed" /\ stageFile[cRunPath(i)] = lastStage)
    /\ (mainPc = "collect") ~>
           (mainPc = "idle" /\ exitStatus = 0
               /\ \A i \in Runs : status[i] = "Completed")

\* main has returned from an invocation for NSites sites on MaxWorkers
\* workers in which every run went through the whole workflow
C30_Witness ==
    /\ nsites = NSites
    /\ workers = MaxWorkers
    /\ mainPc = "idle"
    /\ batch = 1
    /\ \A i \in Runs :
           /\ status[i] = "Completed"
           /\ log[i] = OpsFrom(1)
           /\ stageFile[cRunPath(i)] = lastStage

=============================================================================
